---- MODULE Spec2Model ----
(***************************************************************************)
(* Model of homework_bot (src/homework.py, src/exceptions.py): the         *)
(* credential gate, the API client, the response validator, the status     *)
(* formatter, the notifier and the poll loop of main().                    *)
(*                                                                         *)
(* Python values are tagged records: [t |-> "NoneType"], [t |-> "str",     *)
(* s |-> ..], [t |-> "int", i |-> ..], [t |-> "list", l |-> <<..>>],       *)
(* [t |-> "dict", d |-> function from keys to values].                     *)
(* The Russian message literals of the source are transliterated to ASCII. *)
(***************************************************************************)
EXTENDS Integers, Sequences, FiniteSets, TLC

\* cycle records the pass that ran last, notified the most recent call of
\* bot.send_message, inflight what the network and the messaging transport
\* answered in the pass that has just ended
VARIABLES PRACTICUM_TOKEN, TELEGRAM_TOKEN, TELEGRAM_CHAT_ID,
          pc, exitError, bot, timestamp, old_message, cycle, notified, inflight

vars == <<PRACTICUM_TOKEN, TELEGRAM_TOKEN, TELEGRAM_CHAT_ID,
          pc, exitError, bot, timestamp, old_message, cycle, notified, inflight>>

(***************************************************************************)
(* Bounds of the model.                                                    *)
(***************************************************************************)
\* current_date integers the server may echo: 1..MaxDate
MaxDate == 2
\* longest homeworks list the server may return
MaxLen == 2

(***************************************************************************)
(* Python values.                                                          *)
(***************************************************************************)
PyNone == [t |-> "NoneType"]
PyStr(s) == [t |-> "str", s |-> s]
PyInt(i) == [t |-> "int", i |-> i]
PyList(q) == [t |-> "list", l |-> q]
PyDict(f) == [t |-> "dict", d |-> f]
\* a local name that is not bound yet
Unbound == [t |-> "unbound"]
\* the name bot before telegram.Bot(...) has returned
NoBot == "unbound"
\* marks a key left out of a dict literal
Absent == [t |-> "absent"]

\* the dict holding the keys of r whose value is not Absent
MkDict(r) == PyDict([k \in {x \in DOMAIN r : r[x] # Absent} |-> r[k]])

\* dict.get(key): the value, or None when the key is missing
Get(dict, key) == IF key \in DOMAIN dict.d THEN dict.d[key] ELSE PyNone

\* bool(value) for the values of the model
Truthy(v) ==
    CASE v.t = "NoneType" -> FALSE
      [] v.t = "str" -> v.s # ""
      [] v.t = "int" -> v.i # 0
      [] v.t = "list" -> Len(v.l) # 0
      [] v.t = "dict" -> DOMAIN v.d # {}
      [] OTHER -> TRUE

Digit(d) ==
    CASE d = 0 -> "0" [] d = 1 -> "1" [] d = 2 -> "2" [] d = 3 -> "3"
      [] d = 4 -> "4" [] d = 5 -> "5" [] d = 6 -> "6" [] d = 7 -> "7"
      [] d = 8 -> "8" [] d = 9 -> "9"

RECURSIVE IntStr(_)
IntStr(n) == IF n < 10 THEN Digit(n) ELSE IntStr(n \div 10) \o Digit(n % 10)

\* str(value) as an f-string renders it
Fmt(v) ==
    CASE v.t = "NoneType" -> "None"
      [] v.t = "str" -> v.s
      [] v.t = "int" -> IntStr(v.i)

(***************************************************************************)
(* Results of calls and exceptions.                                        *)
(***************************************************************************)
NoError == [type |-> "", msg |-> ""]
Returned(v) == [st |-> "returned", val |-> v]
Raised(type, msg) == [st |-> "raised", err |-> [type |-> type, msg |-> msg]]
NotCalled == [st |-> "notcalled"]

\* str(error): KeyError renders the repr of its argument, the others the text
Str(error) ==
    IF error.type = "KeyError" THEN "'" \o error.msg \o "'" ELSE error.msg

(***************************************************************************)
(* Module constants of homework.py.                                        *)
(***************************************************************************)
RETRY_PERIOD == 600
ENDPOINT == "https://practicum.yandex.ru/api/user_api/homework_statuses/"
HTTP_OK == 200
InitialTimestamp == 1681635226

HOMEWORK_VERDICTS_swapped ==
    [approved |-> "Rabota proverena: u revyuera est zamechaniya.",
     reviewing |-> "Rabota vzyata na proverku revyuerom.",
     rejected |-> "Rabota proverena: revyueru vsyo ponravilos. Ura!"]

HOMEWORK_VERDICTS ==
    [approved |-> "Rabota proverena: revyueru vsyo ponravilos. Ura!",
     reviewing |-> "Rabota vzyata na proverku revyuerom.",
     rejected |-> "Rabota proverena: u revyuera est zamechaniya."]

(***************************************************************************)
(* check_tokens (lines 41-53).                                             *)
(***************************************************************************)
\* the names of env_vars, in the order of the dict literal
EnvNames == <<"PRACTICUM_TOKEN", "TELEGRAM_TOKEN", "TELEGRAM_CHAT_ID">>

\* env_vars: name -> value of the module global
env_vars ==
    [n \in {EnvNames[i] : i \in 1..Len(EnvNames)} |->
        CASE n = "PRACTICUM_TOKEN" -> PRACTICUM_TOKEN
          [] n = "TELEGRAM_TOKEN" -> TELEGRAM_TOKEN
          [] n = "TELEGRAM_CHAT_ID" -> TELEGRAM_CHAT_ID]

\* ", ".join(names)
RECURSIVE Join(_)
Join(names) ==
    IF Len(names) = 0 THEN ""
    ELSE IF Len(names) = 1 THEN names[1]
    ELSE names[1] \o ", " \o Join(Tail(names))

\* the test of the list comprehension: token is None
TokenIsMissing(token) == token = PyNone

\* a gate that tests `not token`, so that empty strings are reported too
check_tokens_falsy ==
    LET Missing(n) == ~Truthy(env_vars[n])
        error_tokens == SelectSeq(EnvNames, Missing)
    IN  IF Len(error_tokens) # 0
        THEN Raised("NoneEnvVarsError",
                    "Programma ostanovlena. Otsutstvuyut peremennye okruzheniya: \""
                    \o Join(error_tokens) \o "\"")
        ELSE Returned(PyNone)

\* a gate that leaves TELEGRAM_CHAT_ID out of env_vars
check_tokens_two ==
    LET Missing(n) == TokenIsMissing(env_vars[n])
        error_tokens == SelectSeq(SubSeq(EnvNames, 1, 2), Missing)
    IN  IF Len(error_tokens) # 0
        THEN Raised("NoneEnvVarsError",
                    "Programma ostanovlena. Otsutstvuyut peremennye okruzheniya: \""
                    \o Join(error_tokens) \o "\"")
        ELSE Returned(PyNone)

check_tokens ==
    LET Missing(n) == TokenIsMissing(env_vars[n])
        error_tokens == SelectSeq(EnvNames, Missing)
    IN  IF Len(error_tokens) # 0
        THEN Raised("NoneEnvVarsError",
                    "Programma ostanovlena. Otsutstvuyut peremennye okruzheniya: \""
                    \o Join(error_tokens) \o "\"")
        ELSE Returned(PyNone)

(***************************************************************************)
(* send_message (lines 56-62).  delivery is the outcome of                 *)
(* bot.send_message: "ok" or "fail" (it raised).                           *)
(***************************************************************************)
DeliveryOutcomes == {"ok", "fail"}

\* the call bot.send_message(TELEGRAM_CHAT_ID, message)
BotCall(message, delivery) ==
    [chat_id |-> TELEGRAM_CHAT_ID, text |-> message, delivered |-> delivery = "ok"]

\* a notifier without the try/except: a delivery failure reaches the caller
send_message_propagates(message, delivery) ==
    [calls |-> <<BotCall(message, delivery)>>,
     raised |-> IF delivery = "ok" THEN NoError
                ELSE [type |-> "TelegramError", msg |-> "delivery failed"]]

\* the call is made; when it raises, the except clause logs and returns
send_message(message, delivery) ==
    [calls |-> <<BotCall(message, delivery)>>, raised |-> NoError]

(***************************************************************************)
(* get_api_answer (lines 65-98).  net is what requests.get and             *)
(* response.json() produce for this call.                                  *)
(***************************************************************************)
\* requests.get raised a RequestException
TransportFailure(text) == [kind |-> "RequestException", error |-> text]
\* a response whose body is not JSON
HttpUndecodable(code) == [kind |-> "response", status_code |-> code, decodable |-> FALSE]
\* a response whose body decodes to doc
HttpJson(code, doc) ==
    [kind |-> "response", status_code |-> code, decodable |-> TRUE, doc |-> doc]

\* requests.get was not called
NoNet == [kind |-> "none"]

get_api_answer(ts, net) ==
    IF ts.t # "int"
    THEN [requests |-> <<>>,
          res |-> Raised("TypeError", "Peredana data ne v formate Unix Timestamp")]
    ELSE LET payload == [from_date |-> ts]
             sent == <<payload>>
         IN  IF net.kind = "RequestException"
             THEN [requests |-> sent,
                   res |-> Raised("ConnectionError",
                                  "Oshibka soedineniya s serverom: " \o net.error)]
             ELSE IF net.status_code # HTTP_OK
             THEN [requests |-> sent,
                   res |-> Raised("StatusCodeIsNot200Error",
                                  "Problema s endpointom \"" \o ENDPOINT
                                  \o "\". Kod otveta API: " \o IntStr(net.status_code))]
             ELSE IF ~net.decodable
             \* json.JSONDecodeError(message) lacks the doc and pos arguments
             THEN [requests |-> sent,
                   res |-> Raised("TypeError",
                                  "JSONDecodeError.__init__() missing 2 required positional arguments: 'doc' and 'pos'")]
             ELSE IF net.doc.t # "dict"
             THEN [requests |-> sent,
                   res |-> Raised("AttributeError",
                                  "'" \o net.doc.t \o "' object has no attribute 'get'")]
             ELSE LET code == Get(net.doc, "code")
                      error == Get(net.doc, "error")
                  IN  IF Truthy(code) \/ Truthy(error)
                      THEN [requests |-> sent,
                            res |-> Raised("Exception",
                                           "Otkaz servera. Detali zaprosa: Code: "
                                           \o Fmt(code) \o ", Error: " \o Fmt(error))]
                      ELSE [requests |-> sent, res |-> Returned(net.doc)]

(***************************************************************************)
(* check_response (lines 101-116).                                         *)
(***************************************************************************)
check_response(response) ==
    IF response.t # "dict"
    THEN Raised("TypeError", "Programma ne poluchaet slovar v kachestve otveta API")
    ELSE LET homeworks == Get(response, "homeworks")
         IN  IF homeworks = PyNone
             THEN Raised("KeyError", "Otsutstvie ozhidaemogo klyucha \"homeworks\" v otvete API")
             ELSE IF homeworks.t # "list"
             THEN Raised("TypeError", "Klyuch otveta API \"homeworks\" ne yavlyaetsya spiskom")
             ELSE Returned(homeworks)

(***************************************************************************)
(* parse_status (lines 119-132).                                           *)
(***************************************************************************)
\* HOMEWORK_VERDICTS.get(status)
VerdictOf(status) ==
    IF status.t = "str" /\ status.s \in DOMAIN HOMEWORK_VERDICTS
    THEN PyStr(HOMEWORK_VERDICTS[status.s])
    ELSE PyNone

parse_status(homework) ==
    IF homework.t # "dict"
    THEN Raised("AttributeError", "'" \o homework.t \o "' object has no attribute 'get'")
    ELSE LET homework_name == Get(homework, "homework_name")
         IN  IF homework_name = PyNone
             THEN Raised("KeyError", "Net klyucha \"homework_name\" v otvete API")
             ELSE IF "status" \notin DOMAIN homework.d
             THEN Raised("KeyError", "status")
             ELSE LET status == homework.d["status"]
                      verdict == VerdictOf(status)
                  IN  IF verdict = PyNone
                      THEN Raised("KeyError",
                                  "Neozhidannyj status domashnej raboty: " \o Fmt(status))
                      ELSE Returned("Izmenilsya status proverki raboty \""
                                    \o Fmt(homework_name) \o "\". " \o verdict.s)

(***************************************************************************)
(* What the environment can hand to the program.                           *)
(***************************************************************************)
\* os.getenv: None, an empty string or a value
EnvValues == {PyNone, PyStr(""), PyStr("token")}

NameValues == {Absent, PyNone, PyStr("proj1")}
StatusValues == {Absent, PyNone, PyStr("approved"), PyStr("reviewing"),
                 PyStr("rejected"), PyStr("unknown")}
\* the submission records: every name with a known status, every status
\* with a name, and one element that is no mapping
HomeworkRecords ==
    {MkDict([homework_name |-> n, status |-> PyStr("approved")]) : n \in NameValues}
    \cup {MkDict([homework_name |-> PyStr("proj1"), status |-> st]) : st \in StatusValues}
    \cup {PyStr("x")}
\* an older submission that follows the most recent one in the list
OlderRecord == MkDict([homework_name |-> PyStr("proj0"), status |-> PyStr("rejected")])
NewerRecord == MkDict([homework_name |-> PyStr("proj1"), status |-> PyStr("reviewing")])
\* the empty list, every record alone, and the longer lists up to MaxLen
HomeworkLists ==
    {PyList(<<>>)}
    \cup {PyList(<<r>>) : r \in HomeworkRecords}
    \cup {PyList(<<NewerRecord>> \o [i \in 1..k |-> OlderRecord]) : k \in 1..(MaxLen - 1)}
HomeworksValues == {Absent, PyNone, PyStr("x")} \cup HomeworkLists
CurrentDates == {Absent, PyStr("1700000000")} \cup {PyInt(i) : i \in 1..MaxDate}
\* a record without a name
NamelessRecord == MkDict([status |-> PyStr("approved")])
\* a record with a name and without a status
StatuslessRecord == MkDict([homework_name |-> PyStr("proj1")])
\* decoded bodies: every homeworks value with one current_date, the empty
\* list, a well-formed list and a malformed one with every current_date,
\* a record without status in a body without current_date, bodies with a
\* code or error field, and a body that is no mapping
Documents ==
    {MkDict([homeworks |-> h, current_date |-> PyInt(1)]) : h \in HomeworksValues}
    \cup {MkDict([homeworks |-> h, current_date |-> c]) :
              h \in {PyList(<<>>), PyList(<<NewerRecord>>), PyList(<<NamelessRecord>>)},
              c \in CurrentDates}
    \cup {MkDict([homeworks |-> PyList(<<StatuslessRecord>>)])}
    \cup {MkDict([homeworks |-> PyList(<<OlderRecord>>), current_date |-> PyInt(1),
                  code |-> PyStr("")]),
          MkDict([homeworks |-> PyList(<<OlderRecord>>), current_date |-> PyInt(1),
                  code |-> PyStr("not_authenticated")]),
          MkDict([homeworks |-> PyList(<<OlderRecord>>), current_date |-> PyInt(1),
                  error |-> PyStr("boom")])}
    \cup {PyList(<<>>)}
NetOutcomes ==
    {TransportFailure("timeout")}
    \cup {HttpUndecodable(code) : code \in {HTTP_OK, 503}}
    \cup {HttpJson(HTTP_OK, doc) : doc \in Documents}

\* telegram.Bot(token=...): a client, a client that is falsy, or the
\* constructor raises (it rejects an empty token)
BotOutcomes(token) ==
    IF token = PyStr("") THEN {"raises"} ELSE {"Bot", "falsy", "raises"}

(***************************************************************************)
(* main (lines 135-163).                                                   *)
(***************************************************************************)
\* a startup that does not test the client
InitBot_unchecked(b) == Returned(b)

\* lines 140-143: if not bot: raise InitBotError
InitBot(b) ==
    IF b = "falsy"
    THEN Raised("InitBotError", "Oshibka inicializacii bota")
    ELSE Returned(b)

\* response['current_date'] (line 152)
Subscript(dict, key) ==
    IF key \in DOMAIN dict.d THEN Returned(dict.d[key]) ELSE Raised("KeyError", key)

\* lines 154-156 without the comparison: every text is sent
StatusNotify_always(new_message, old, delivery) ==
    LET s == send_message(new_message, delivery)
    IN  [old_message |-> new_message, sends |-> s.calls, raised |-> s.raised]

\* lines 154-156 with the last-sent message updated only after a delivery
StatusNotify_after_delivery(new_message, old, delivery) ==
    IF old # new_message
    THEN LET s == send_message(new_message, delivery)
         IN  [old_message |-> IF delivery = "ok" THEN new_message ELSE old,
              sends |-> s.calls, raised |-> s.raised]
    ELSE [old_message |-> old, sends |-> <<>>, raised |-> NoError]

\* lines 154-156
StatusNotify(new_message, old, delivery) ==
    IF old # new_message
    THEN LET s == send_message(new_message, delivery)
         IN  [old_message |-> new_message, sends |-> s.calls, raised |-> s.raised]
    ELSE [old_message |-> old, sends |-> <<>>, raised |-> NoError]

\* lines 157-161 with the last-sent message left alone
ExceptHandler_forgets(error, old, delivery) ==
    LET new_message == "Sboj v rabote programmy: " \o Str(error)
    IN  IF old # new_message
        THEN LET s == send_message(new_message, delivery)
             IN  [new_message |-> new_message, old_message |-> old,
                  sends |-> s.calls, raised |-> s.raised]
        ELSE [new_message |-> new_message, old_message |-> old,
              sends |-> <<>>, raised |-> NoError]

\* lines 157-161 without the comparison: every failure text is sent
ExceptHandler_always(error, old, delivery) ==
    LET new_message == "Sboj v rabote programmy: " \o Str(error)
        s == send_message(new_message, delivery)
    IN  [new_message |-> new_message, old_message |-> new_message,
         sends |-> s.calls, raised |-> s.raised]

\* lines 157-161
ExceptHandler(error, old, delivery) ==
    LET new_message == "Sboj v rabote programmy: " \o Str(error)
    IN  IF old # new_message
        THEN LET s == send_message(new_message, delivery)
             IN  [new_message |-> new_message, old_message |-> new_message,
                  sends |-> s.calls, raised |-> s.raised]
        ELSE [new_message |-> new_message, old_message |-> old,
              sends |-> <<>>, raised |-> NoError]

\* the record of one pass through the loop body, before anything ran
CycleStart(ts, old) ==
    [ts0 |-> ts, old0 |-> old, timestamp |-> ts, old_message |-> old,
     requests |-> <<>>, response |-> NotCalled,
     homeworks |-> NotCalled,
     cursor |-> NotCalled, parsed |-> NotCalled, branch |-> "none",
     error |-> NoError, new_message |-> "", sends |-> <<>>,
     pending |-> NoError, slept |-> 0]

\* an except clause that notifies and then re-raises the error
Except_reraises(c, error, delivery) ==
    LET h == ExceptHandler(error, c.old_message, delivery)
    IN  [c EXCEPT !.branch = "error", !.error = error,
                  !.new_message = h.new_message, !.old_message = h.old_message,
                  !.sends = c.sends \o h.sends, !.pending = error]

\* an except clause that puts the cursor back to its value at the start
Except_rollback(c, error, delivery) ==
    LET h == ExceptHandler(error, c.old_message, delivery)
    IN  [c EXCEPT !.branch = "error", !.error = error, !.timestamp = c.ts0,
                  !.new_message = h.new_message, !.old_message = h.old_message,
                  !.sends = c.sends \o h.sends, !.pending = h.raised]

\* the except clause applied to the pass c
Except(c, error, delivery) ==
    LET h == ExceptHandler(error, c.old_message, delivery)
    IN  [c EXCEPT !.branch = "error", !.error = error,
                  !.new_message = h.new_message, !.old_message = h.old_message,
                  !.sends = c.sends \o h.sends, !.pending = h.raised]

\* an empty branch that advances the cursor before `continue`
EmptyBranch_advances(c) ==
    LET cur == Subscript(c.response.val, "current_date")
    IN  [c EXCEPT !.branch = "empty",
                  !.timestamp = IF cur.st = "returned" THEN cur.val ELSE @]

\* an empty branch that sleeps before `continue`, ahead of the finally clause
EmptyBranch_sleeps(c) == [c EXCEPT !.branch = "empty", !.slept = @ + RETRY_PERIOD]

\* lines 149-151: log and continue
EmptyBranch(c) == [c EXCEPT !.branch = "empty"]

\* lines 146-161: the try block and its except clause
PollCycle(ts, old, net, delivery) ==
    LET api == get_api_answer(ts, net)
        c1 == [CycleStart(ts, old) EXCEPT
                   !.requests = api.requests,
                   !.response = api.res]
    IN  IF api.res.st = "raised" THEN Except(c1, api.res.err, delivery)
        ELSE
        LET hw == check_response(api.res.val)
            c2 == [c1 EXCEPT !.homeworks = hw]
        IN  IF hw.st = "raised" THEN Except(c2, hw.err, delivery)
            ELSE IF Len(hw.val.l) = 0 THEN EmptyBranch(c2)
            ELSE
            LET cur == Subscript(api.res.val, "current_date")
                c3 == [c2 EXCEPT !.cursor = cur]
            IN  IF cur.st = "raised" THEN Except(c3, cur.err, delivery)
                ELSE
                LET ps == parse_status(hw.val.l[1])
                    c4 == [c3 EXCEPT !.timestamp = cur.val, !.parsed = ps]
                IN  IF ps.st = "raised" THEN Except(c4, ps.err, delivery)
                    ELSE
                    LET n == StatusNotify(ps.val, c4.old_message, delivery)
                        c5 == [c4 EXCEPT !.branch = "status",
                                         !.new_message = ps.val,
                                         !.old_message = n.old_message,
                                         !.sends = n.sends]
                    IN  IF n.raised # NoError
                        THEN Except(c5, n.raised, delivery)
                        ELSE c5

NoCycle == CycleStart(Unbound, "")

\* what the network and the messaging transport answer during one pass
Input(net, delivery) == [net |-> net, delivery |-> delivery]
\* between passes nothing is in flight
NoInput == [net |-> NoNet, delivery |-> "none"]

\* no call of bot.send_message has been made yet
NoCall == [chat_id |-> PyNone, text |-> "", delivered |-> FALSE, made |-> FALSE]
\* the most recent call of bot.send_message after the calls of a pass
LastCall(calls, before) ==
    IF calls = <<>> THEN before
    ELSE [chat_id |-> calls[Len(calls)].chat_id, text |-> calls[Len(calls)].text,
          delivered |-> calls[Len(calls)].delivered, made |-> TRUE]

\* what is remembered of a pass once it is over: how it ended, the cursor it
\* read and the text it formatted
Finished(c) ==
    [NoCycle EXCEPT !.branch = c.branch, !.cursor = c.cursor,
                    !.parsed = c.parsed, !.slept = c.slept]

Init ==
    /\ PRACTICUM_TOKEN \in EnvValues
    /\ TELEGRAM_TOKEN \in EnvValues
    /\ TELEGRAM_CHAT_ID \in EnvValues
    /\ pc = "STARTUP"
    /\ exitError = NoError
    /\ bot = NoBot
    /\ timestamp = Unbound
    /\ old_message = Unbound
    /\ cycle = NoCycle
    /\ notified = NoCall
    /\ inflight = NoInput

\* lines 137-144
Startup ==
    /\ pc = "STARTUP"
    /\ UNCHANGED <<PRACTICUM_TOKEN, TELEGRAM_TOKEN, TELEGRAM_CHAT_ID, cycle, notified,
                   inflight>>
    /\ LET gate == check_tokens
       IN  IF gate.st = "raised"
           THEN /\ pc' = "EXITED"
                /\ exitError' = gate.err
                /\ UNCHANGED <<bot, timestamp, old_message>>
           ELSE \E b \in BotOutcomes(TELEGRAM_TOKEN) :
                /\ timestamp' = PyInt(InitialTimestamp)
                /\ IF b = "raises"
                   THEN /\ pc' = "EXITED"
                        /\ exitError' = [type |-> "InvalidToken", msg |-> "Invalid token"]
                        /\ UNCHANGED <<bot, old_message>>
                   ELSE LET chk == InitBot(b)
                        IN  /\ bot' = b
                            /\ IF chk.st = "raised"
                               THEN /\ pc' = "EXITED"
                                    /\ exitError' = chk.err
                                    /\ UNCHANGED old_message
                               ELSE /\ pc' = "POLLING"
                                    /\ old_message' = PyStr("")
                                    /\ UNCHANGED exitError

\* lines 146-161: one pass through try/except
Poll ==
    /\ pc = "POLLING"
    /\ \E net \in NetOutcomes, delivery \in DeliveryOutcomes :
           LET c == PollCycle(timestamp, old_message.s, net, delivery)
           IN  /\ inflight' = Input(net, delivery)
               /\ cycle' = c
               /\ timestamp' = c.timestamp
               /\ old_message' = PyStr(c.old_message)
               /\ notified' = LastCall(c.sends, notified)
    /\ pc' = "SLEEPING"
    /\ UNCHANGED <<PRACTICUM_TOKEN, TELEGRAM_TOKEN, TELEGRAM_CHAT_ID, exitError, bot>>

\* lines 162-163: finally: time.sleep(RETRY_PERIOD); an exception that left
\* the except clause ends the loop after the sleep
Sleep ==
    /\ pc = "SLEEPING"
    /\ cycle' = [Finished(cycle) EXCEPT !.slept = @ + RETRY_PERIOD]
    /\ inflight' = NoInput
    /\ IF cycle.pending = NoError
       THEN pc' = "POLLING" /\ UNCHANGED exitError
       ELSE pc' = "EXITED" /\ exitError' = cycle.pending
    /\ UNCHANGED <<PRACTICUM_TOKEN, TELEGRAM_TOKEN, TELEGRAM_CHAT_ID,
                   bot, timestamp, old_message, notified>>

Next == Startup \/ Poll \/ Sleep

Spec == Init /\ [][Next]_vars

\* Poll changes pc whenever it is taken and is enabled exactly in POLLING
PollEnabled == (ENABLED <<Poll>>_vars) <=> (pc = "POLLING")

\* the program is sequential and every call returns: each step is taken.
\* The last conjunct is WF_vars(Poll) written out, with ENABLED <<Poll>>_vars
\* replaced by its equivalent pc = "POLLING" (PollEnabled).
LiveSpec ==
    /\ Spec
    /\ WF_vars(Startup)
    /\ WF_vars(Sleep)
    /\ ([]<>(pc # "POLLING") \/ []<><<Poll>>_vars)

(***************************************************************************)
(* Properties.                                                             *)
(***************************************************************************)
InLoop == pc \in {"POLLING", "SLEEPING"}
\* a pass through the loop body has just ended
AfterPoll == pc = "SLEEPING"
FetchOK == cycle.response.st = "returned"
ValidateOK == cycle.homeworks.st = "returned"
FormatOK == cycle.parsed.st = "returned"
Tokens == {PRACTICUM_TOKEN, TELEGRAM_TOKEN, TELEGRAM_CHAT_ID}
AllPresent == PyNone \notin Tokens
\* the texts handed to the Notifier in this pass
SentTexts == [i \in 1..Len(cycle.sends) |-> cycle.sends[i].text]

\* C1, per pass: when fetch, validate and format succeed on a non-empty
\* list, the Notifier is invoked exactly when the formatted text differs
\* from the last-sent message, with that text, and last-sent ends equal to it.
C1_Cycle ==
    (AfterPoll /\ FetchOK /\ ValidateOK /\ FormatOK) =>
        /\ Len(cycle.homeworks.val.l) > 0
        /\ SentTexts = (IF cycle.parsed.val # cycle.old0
                        THEN <<cycle.parsed.val>> ELSE <<>>)
        /\ old_message = PyStr(cycle.parsed.val)

\* C1: the per-pass rule holds always, and a pass that formats the same text
\* as the pass before it does not invoke the Notifier (at most one send for
\* a run of identical texts).
C1_Dedup ==
    /\ []C1_Cycle
    /\ [][(pc = "POLLING" /\ pc' = "SLEEPING"
           /\ cycle.parsed.st = "returned" /\ cycle'.parsed.st = "returned"
           /\ cycle'.parsed.val = cycle.parsed.val)
          => cycle'.sends = <<>>]_vars

\* a pass formatted the text that was sent last, and sent nothing
C1_Witness ==
    /\ AfterPoll /\ FormatOK
    /\ cycle.parsed.val = cycle.old0
    /\ cycle.sends = <<>>

\* C2: a pass whose validated list is empty sends nothing and leaves the
\* cursor and the last-sent message as they were, whatever current_date is.
C2_EmptyNoEffect ==
    (AfterPoll /\ ValidateOK /\ Len(cycle.homeworks.val.l) = 0) =>
        /\ cycle.sends = <<>>
        /\ timestamp = cycle.ts0
        /\ old_message = PyStr(cycle.old0)
        /\ cycle.branch = "empty"

\* an empty list arrived with a current_date other than the cursor
C2_Witness ==
    /\ AfterPoll /\ ValidateOK /\ cycle.homeworks.val.l = <<>>
    /\ "current_date" \in DOMAIN cycle.response.val.d
    /\ cycle.response.val.d["current_date"] # cycle.ts0
    /\ cycle.old0 # ""

\* C3: after a pass that ran to the end on a non-empty list the cursor is the
\* current_date of its response, and the request of the next pass carries
\* that value as from_date.
C3_RoundTrip ==
    /\ [](AfterPoll /\ cycle.branch = "status"
          => timestamp = cycle.response.val.d["current_date"])
    /\ [][(pc = "POLLING" /\ pc' = "SLEEPING" /\ cycle.branch = "status")
          => cycle'.requests = <<[from_date |-> cycle.cursor.val]>>]_vars

\* the error raised by the first step of the pass that failed
StageError ==
    CASE cycle.response.st = "raised" -> cycle.response.err
      [] cycle.homeworks.st = "raised" -> cycle.homeworks.err
      [] cycle.cursor.st = "raised" -> cycle.cursor.err
      [] cycle.parsed.st = "raised" -> cycle.parsed.err
      [] OTHER -> NoError

\* C4, per pass: an error of fetch, validate, the cursor update or format
\* becomes the failure text naming it, sent exactly when it differs from
\* last-sent, and last-sent becomes that text; nothing is left to propagate.
C4_Cycle ==
    (AfterPoll /\ StageError # NoError) =>
        /\ cycle.branch = "error"
        /\ cycle.error = StageError
        /\ cycle.new_message = "Sboj v rabote programmy: " \o Str(StageError)
        /\ SentTexts = (IF cycle.new_message # cycle.old0
                        THEN <<cycle.new_message>> ELSE <<>>)
        /\ old_message = PyStr(cycle.new_message)
        /\ cycle.pending = NoError

\* C4: the per-pass rule holds always and the pass is followed by the next
\* one: the loop does not terminate.
C4_ErrorsNotified ==
    /\ []C4_Cycle
    /\ [][(pc = "SLEEPING" /\ cycle.branch = "error") => pc' = "POLLING"]_vars

\* HTTP 503 was turned into a failure notification
C4_Witness ==
    /\ AfterPoll
    /\ cycle.error.type = "StatusCodeIsNot200Error"
    /\ SentTexts = <<"Sboj v rabote programmy: Problema s endpointom \"https://practicum.yandex.ru/api/user_api/homework_statuses/\". Kod otveta API: 503">>

\* C5: once in the loop the program stays in it, and POLLING and SLEEPING
\* follow each other forever.
C5_NoTerminalState ==
    /\ [][InLoop => InLoop']_vars
    /\ (pc = "POLLING") ~> (pc = "SLEEPING")
    /\ (pc = "SLEEPING") ~> (pc = "POLLING")

\* the loop came round after a pass that ended in the except clause
C5_Witness ==
    /\ pc = "POLLING"
    /\ cycle.slept > 0
    /\ cycle.branch = "error"

\* C6: a pass invokes the Notifier at most once, a failed delivery leaves no
\* error to propagate and does not turn the pass into an error pass, and the
\* process never exits once the loop has started.
C6_DeliveryAbsorbed ==
    /\ Len(cycle.sends) <= 1
    /\ cycle.pending = NoError
    /\ (pc = "EXITED" => cycle = NoCycle)
    /\ (AfterPoll /\ FormatOK => cycle.branch = "status" /\ cycle.error = NoError)

\* a status notification whose delivery failed
C6_Witness ==
    /\ AfterPoll /\ FormatOK
    /\ Len(cycle.sends) = 1
    /\ ~cycle.sends[1].delivered

\* the message check_tokens is expected to give for each set of absent values
ExpectedMissing ==
    LET a == PRACTICUM_TOKEN = PyNone
        b == TELEGRAM_TOKEN = PyNone
        c == TELEGRAM_CHAT_ID = PyNone
        names ==
            CASE a /\ b /\ c -> "PRACTICUM_TOKEN, TELEGRAM_TOKEN, TELEGRAM_CHAT_ID"
              [] a /\ b /\ ~c -> "PRACTICUM_TOKEN, TELEGRAM_TOKEN"
              [] a /\ ~b /\ c -> "PRACTICUM_TOKEN, TELEGRAM_CHAT_ID"
              [] ~a /\ b /\ c -> "TELEGRAM_TOKEN, TELEGRAM_CHAT_ID"
              [] a /\ ~b /\ ~c -> "PRACTICUM_TOKEN"
              [] ~a /\ b /\ ~c -> "TELEGRAM_TOKEN"
              [] ~a /\ ~b /\ c -> "TELEGRAM_CHAT_ID"
              [] OTHER -> ""
    IN  "Programma ostanovlena. Otsutstvuyut peremennye okruzheniya: \"" \o names \o "\""

\* C7: with a required value absent, startup ends with NoneEnvVarsError whose
\* message names exactly the absent values; no client is built, no request
\* and no notification is issued.
C7_MissingConfiguration ==
    ~AllPresent =>
        /\ pc \in {"STARTUP", "EXITED"}
        /\ cycle = NoCycle
        /\ bot = NoBot
        /\ (pc = "EXITED" =>
                exitError = [type |-> "NoneEnvVarsError", msg |-> ExpectedMissing])

\* two values absent and the third present but empty
C7_Witness ==
    /\ pc = "EXITED"
    /\ PRACTICUM_TOKEN = PyNone
    /\ TELEGRAM_TOKEN = PyStr("")
    /\ TELEGRAM_CHAT_ID = PyNone

\* C8 as stated: with all three values present the process never ends.
C8_OnlyConfigTerminates == AllPresent => pc # "EXITED"

\* C8 amended: the process ends only at startup, with NoneEnvVarsError exactly
\* when a value is absent, with InitBotError when the client is falsy, or with
\* the error of the client's constructor; with all values present it reaches
\* the loop exactly when the client was built and is truthy.
C8_StartupOutcomes ==
    /\ (pc = "EXITED" =>
            /\ cycle = NoCycle
            /\ exitError.type \in {"NoneEnvVarsError", "InitBotError", "InvalidToken"}
            /\ (exitError.type = "NoneEnvVarsError" <=> ~AllPresent)
            /\ (exitError.type = "InitBotError" <=> bot = "falsy")
            /\ (exitError.type = "InvalidToken" => bot = NoBot))
    /\ (AllPresent /\ pc # "STARTUP" => (InLoop <=> bot = "Bot"))
    /\ (InLoop => AllPresent)

\* all values present and startup ended with InitBotError
C8_Witness ==
    /\ pc = "EXITED"
    /\ AllPresent
    /\ exitError.type = "InitBotError"

\* C9 as stated: in the loop all three values are non-empty strings.
C9_NonEmptyInLoop == InLoop => \A v \in Tokens : v.t = "str" /\ v.s # ""

\* C9 amended: in the loop all three values are present (not None); an empty
\* string counts as present.
C9_PresentInLoop == InLoop => \A v \in Tokens : v.t = "str"

\* the loop runs with an empty API token and an empty chat id
C9_Witness ==
    /\ pc = "POLLING"
    /\ PRACTICUM_TOKEN = PyStr("")
    /\ TELEGRAM_CHAT_ID = PyStr("")

\* C10: parse_status of a mapping: no name field gives the missing-name
\* KeyError; a name with approved, reviewing or rejected gives the template
\* sentence with the verdict of that code; a name with another status code
\* gives the unknown-status KeyError.
C10_Format ==
    (AfterPoll /\ cycle.parsed.st # "notcalled" /\ cycle.homeworks.val.l[1].t = "dict") =>
        LET h == cycle.homeworks.val.l[1].d
            named == "homework_name" \in DOMAIN h /\ h["homework_name"].t = "str"
            coded == "status" \in DOMAIN h
            Sentence(verdict) ==
                Returned("Izmenilsya status proverki raboty \"" \o h["homework_name"].s
                         \o "\". " \o verdict)
        IN  /\ "homework_name" \notin DOMAIN h =>
                   cycle.parsed = Raised("KeyError", "Net klyucha \"homework_name\" v otvete API")
            /\ named /\ coded /\ h["status"] = PyStr("approved") =>
                   cycle.parsed = Sentence("Rabota proverena: revyueru vsyo ponravilos. Ura!")
            /\ named /\ coded /\ h["status"] = PyStr("reviewing") =>
                   cycle.parsed = Sentence("Rabota vzyata na proverku revyuerom.")
            /\ named /\ coded /\ h["status"] = PyStr("rejected") =>
                   cycle.parsed = Sentence("Rabota proverena: u revyuera est zamechaniya.")
            /\ (named /\ coded
                /\ h["status"] \notin {PyStr("approved"), PyStr("reviewing"), PyStr("rejected")}) =>
                   cycle.parsed = Raised("KeyError", "Neozhidannyj status domashnej raboty: "
                                                     \o Fmt(h["status"]))

\* a rejected submission was formatted
C10_Witness ==
    /\ AfterPoll
    /\ cycle.parsed = Returned("Izmenilsya status proverki raboty \"proj1\". Rabota proverena: u revyuera est zamechaniya.")

\* the three failures of check_response
NotAMapping == Raised("TypeError", "Programma ne poluchaet slovar v kachestve otveta API")
MissingKey == Raised("KeyError", "Otsutstvie ozhidaemogo klyucha \"homeworks\" v otvete API")
WrongType == Raised("TypeError", "Klyuch otveta API \"homeworks\" ne yavlyaetsya spiskom")

\* C11: validate fails with NotAMapping for a document that is no mapping,
\* with MissingKey when the mapping has no homeworks field, with WrongType
\* when the field is present and its value is no sequence (null included),
\* and otherwise returns the sequence as it came.
C11_Validate ==
    (AfterPoll /\ FetchOK) =>
        LET document == cycle.response.val
        IN  cycle.homeworks =
                (IF document.t # "dict" THEN NotAMapping
                 ELSE IF "homeworks" \notin DOMAIN document.d THEN MissingKey
                 ELSE IF document.d["homeworks"].t # "list" THEN WrongType
                 ELSE Returned(document.d["homeworks"]))

\* the pass called requests.get: the cursor was an integer
Requested == AfterPoll /\ cycle.requests # <<>>
\* what requests.get and response.json() produced in this pass
Answer == inflight.net
\* the decoded body is a mapping that has the field
Carries(doc, field) == doc.t = "dict" /\ field \in DOMAIN doc.d

\* C12: with an integer cursor, a transport failure gives ConnectionFailure,
\* an HTTP status other than 200 gives UnexpectedStatus, a decoded body that
\* carries a code or error field gives ServerRejected, and every other
\* decoded body is returned as it came.
C12_Fetch ==
    (Requested /\ (Answer.kind = "response" /\ Answer.status_code = HTTP_OK
                   => Answer.decodable)) =>
        IF Answer.kind = "RequestException"
        THEN /\ cycle.response.st = "raised"
             /\ cycle.response.err.type = "ConnectionError"
        ELSE IF Answer.status_code # HTTP_OK
        THEN /\ cycle.response.st = "raised"
             /\ cycle.response.err.type = "StatusCodeIsNot200Error"
        ELSE IF Carries(Answer.doc, "code") \/ Carries(Answer.doc, "error")
        THEN /\ cycle.response.st = "raised"
             /\ cycle.response.err.type = "Exception"
        ELSE cycle.response = Returned(Answer.doc)

\* C13: a 200 response whose body is not JSON makes fetch fail with the JSON
\* decoding error (MalformedResponse) and with no other kind of error.
C13_Malformed ==
    (Requested /\ Answer.kind = "response" /\ Answer.status_code = HTTP_OK
     /\ ~Answer.decodable) =>
        /\ cycle.response.st = "raised"
        /\ cycle.response.err.type = "JSONDecodeError"

\* the failure of get_api_answer for a cursor that is no integer
InvalidCursor == Raised("TypeError", "Peredana data ne v formate Unix Timestamp")

\* C14: in the loop the cursor is always an integer, whatever current_date
\* the responses carried, so no pass fails with InvalidCursor; a cursor that
\* is no integer fails with InvalidCursor before any request is made.
C14_IntegerCursor ==
    /\ InLoop => timestamp.t = "int"
    /\ AfterPoll => cycle.response # InvalidCursor
    /\ (AfterPoll /\ cycle.ts0.t # "int") =>
           cycle.response = InvalidCursor /\ cycle.requests = <<>>

\* C15: every pass calls fetch once and issues at most one request, in each
\* of its three branches; the pass has not slept when it ends, one sleep of
\* RETRY_PERIOD follows it, and passes and sleeps alternate.
C15_OneFetchOneSleep ==
    /\ [](AfterPoll => /\ cycle.branch \in {"empty", "status", "error"}
                       /\ cycle.response.st # "notcalled"
                       /\ Len(cycle.requests) <= 1
                       /\ cycle.slept = 0)
    /\ []((pc = "POLLING" /\ cycle.branch # "none") => cycle.slept = RETRY_PERIOD)
    /\ [][pc = "POLLING" => pc' = "SLEEPING"]_vars
    /\ [][pc = "SLEEPING" => pc' = "POLLING"]_vars

\* the loop came round after a pass over an empty list, having slept once
C15_Witness ==
    /\ pc = "POLLING"
    /\ cycle.branch = "empty"
    /\ cycle.slept = RETRY_PERIOD

\* C16: no Notifier invocation carries the text of the invocation before it,
\* within a pass and from one pass to the next, whatever kind the two texts
\* are; an error text that repeats is therefore sent once.
C16_NoRepeat ==
    [][(pc = "POLLING" /\ pc' = "SLEEPING") =>
          /\ \A i \in 1..(Len(cycle'.sends) - 1) :
                 cycle'.sends[i + 1].text # cycle'.sends[i].text
          /\ (notified.made /\ cycle'.sends # <<>>) =>
                 cycle'.sends[1].text # notified.text]_vars

\* a pass failed with the text of the last notification and sent nothing
C16_Witness ==
    /\ AfterPoll
    /\ cycle.branch = "error"
    /\ notified.made
    /\ cycle.new_message = notified.text
    /\ cycle.sends = <<>>

\* the validated list is non-empty and its first record has a name and no
\* status field
FirstLacksStatus ==
    /\ ValidateOK
    /\ Len(cycle.homeworks.val.l) > 0
    /\ cycle.homeworks.val.l[1].t = "dict"
    /\ "homework_name" \in DOMAIN cycle.homeworks.val.l[1].d
    /\ cycle.homeworks.val.l[1].d["homework_name"].t = "str"
    /\ "status" \notin DOMAIN cycle.homeworks.val.l[1].d

\* C17: for a response without current_date whose first record has a name
\* and no status, the error of the pass is the one raised by the format
\* step, and the failure text made from it is the text of the pass.
C17_ScenarioC ==
    (AfterPoll /\ FetchOK /\ FirstLacksStatus
     /\ "current_date" \notin DOMAIN cycle.response.val.d) =>
        /\ cycle.parsed.st = "raised"
        /\ cycle.error = cycle.parsed.err
        /\ cycle.branch = "error"
        /\ cycle.new_message = "Sboj v rabote programmy: " \o Str(cycle.parsed.err)

\* C18: in the loop the last-sent message is the text of the most recent
\* Notifier invocation, delivered or not, and is empty before the first one;
\* a pass that produces the text of an invocation whose delivery failed does
\* not invoke the Notifier again.
C18_LastSent ==
    /\ [](InLoop => old_message = PyStr(notified.text))
    /\ [](InLoop /\ ~notified.made => old_message = PyStr(""))
    /\ [][(pc = "POLLING" /\ pc' = "SLEEPING" /\ notified.made /\ ~notified.delivered
           /\ cycle'.branch # "empty" /\ cycle'.new_message = notified.text)
          => cycle'.sends = <<>> /\ notified' = notified]_vars

\* a pass produced the text whose delivery had failed, and sent nothing
C18_Witness ==
    /\ AfterPoll
    /\ cycle.branch = "status"
    /\ notified.made
    /\ ~notified.delivered
    /\ cycle.new_message = notified.text
    /\ cycle.sends = <<>>

\* fetch and validate succeeded, the list is non-empty and the response has
\* a current_date field
CursorEchoed ==
    /\ FetchOK
    /\ ValidateOK
    /\ Len(cycle.homeworks.val.l) > 0
    /\ "current_date" \in DOMAIN cycle.response.val.d

\* C19: a pass assigns the cursor exactly when fetch and validate succeeded
\* on a non-empty list and the response has current_date: the cursor then
\* ends as that value, also when the format step fails afterwards, and in
\* every other pass it ends as it began.
C19_CursorFrame ==
    AfterPoll =>
        /\ timestamp = (IF CursorEchoed THEN cycle.response.val.d["current_date"]
                        ELSE cycle.ts0)
        /\ timestamp # cycle.ts0 => CursorEchoed
        /\ cycle.parsed.st # "notcalled" => CursorEchoed
        /\ (~FetchOK \/ ~ValidateOK) => timestamp = cycle.ts0

\* the format step failed in a pass that moved the cursor
C19_Witness ==
    /\ AfterPoll
    /\ cycle.parsed.st = "raised"
    /\ timestamp # cycle.ts0
    /\ timestamp = cycle.response.val.d["current_date"]

====
